---------------------------- MODULE Spec2Model ----------------------------
(***************************************************************************)
(* TechnicalReportGenerator (src/generate_technical_report.py): an object  *)
(* that owns a story (a list of layout blocks) and a style registry, seven *)
(* section builders that append blocks to the story, and generate(), which *)
(* runs the builders in sequence and hands the story to the layout engine. *)
(*                                                                         *)
(* Texts are ASCII-folded and paragraph texts are cut to their first 48    *)
(* characters; table cells are kept whole.  Lengths are in tenths of a     *)
(* point, so that 0.3*inch is the integer 3*inch.                          *)
(***************************************************************************)
EXTENDS Integers, Sequences, FiniteSets, TLC

\* ------------------------------------------------------------------ bounds
\* generate() is called at most MaxCalls times on the one instance.
MaxCalls == 2
\* The clock shows one of MaxDay consecutive days.
MaxDay == 2
\* A constructor of the layout library that raises does so after at most
\* MaxFailPoint appends of the builder that called it; a layout pass that
\* raises has taken at most MaxFailPoint blocks off the list it was given.
MaxFailPoint == 0

\* ------------------------------------------------------- program constants
\* reportlab.lib.units.inch, in points
inch == 72
filename == "JobNimbus_MCP_Technical_Optimization_Report.pdf"

VARIABLES
  story,      \* self.story
  styles,     \* self.styles: style name -> style
  pc,         \* the statement of generate() that runs next, or "idle"
  outcome,    \* of the latest generate(): "none", "running", "returned", "raised"
  cause,      \* what the latest generate() raised, "none" otherwise
  context,    \* the section the exception raised by the latest generate()
              \* names as the origin of the failure, "none" when it names none
  result,     \* what the latest generate() returned, "none" otherwise
  stdout,     \* messages printed by the latest generate()
  invoked,    \* section builders called by the latest generate(), in order
  builds,     \* calls of self.doc.build made by the latest generate()
  calls,      \* number of generate() calls so far
  handed,     \* every story passed to self.doc.build so far
  ran,        \* every completed run of a section builder: builder, date, blocks
  file,       \* the file at self.filename: "absent", "partial", "complete"
  today,      \* the day the clock shows
  writable,   \* whether self.filename can be opened for writing
  consumes    \* whether the layout engine takes blocks off the list it lays out

vars == <<story, styles, pc, outcome, cause, context, result, stdout, invoked,
          builds, calls, handed, ran, file, today, writable, consumes>>

\* ------------------------------------------------------------ small helpers
Min(a, b) == IF a < b THEN a ELSE b

IsPrefix(s, t) == Len(s) <= Len(t) /\ SubSeq(t, 1, Len(s)) = s

IsSuffix(s, t) == Len(s) <= Len(t) /\ SubSeq(t, Len(t) - Len(s) + 1, Len(t)) = s

\* ------------------------------------------------------------------- blocks
NoData == <<>>

\* Paragraph(text, style): the style is the registry entry looked up by name
Paragraph(text, style) ==
  [kind |-> "Paragraph", style |-> style, text |-> text,
   data |-> NoData, colWidths |-> <<>>, height |-> 0]

\* Spacer(width, height)
Spacer(width, height) ==
  [kind |-> "Spacer", style |-> "", text |-> "",
   data |-> NoData, colWidths |-> <<>>, height |-> height]

\* The end of a section as it would be with a blank gap for a page break.
PageBreak_as_blank_gap ==
  [kind |-> "Spacer", style |-> "", text |-> "",
   data |-> NoData, colWidths |-> <<>>, height |-> 5 * inch]

\* PageBreak()
PageBreak ==
  [kind |-> "PageBreak", style |-> "", text |-> "",
   data |-> NoData, colWidths |-> <<>>, height |-> 0]

\* Table as it would be if it took the rows after the first for the body and
\* lost the last of them.
Table_dropping_last_row(data, colWidths) ==
  [kind |-> "Table", style |-> "", text |-> "",
   data |-> SubSeq(data, 1, Len(data) - 1), colWidths |-> colWidths,
   height |-> 0]

\* Table(data, colWidths=...): the table keeps the rows it is given
Table(data, colWidths) ==
  [kind |-> "Table", style |-> "", text |-> "",
   data |-> data, colWidths |-> colWidths, height |-> 0]

\* The loop as it would be with the spacer appended once after the loop
\* instead of once per item.
RECURSIVE ForEachSpaced_spacer_outside(_, _, _)
ForEachSpaced_spacer_outside(items, style, gap) ==
  IF items = <<>> THEN <<Spacer(1, gap)>>
  ELSE <<Paragraph(Head(items), style)>>
       \o ForEachSpaced_spacer_outside(Tail(items), style, gap)

\* for x in items: story.append(Paragraph(x, style)); story.append(Spacer(1, gap))
RECURSIVE ForEachSpaced(_, _, _)
ForEachSpaced(items, style, gap) ==
  IF items = <<>> THEN <<>>
  ELSE <<Paragraph(Head(items), style), Spacer(1, gap)>>
       \o ForEachSpaced(Tail(items), style, gap)

\* for item in items: story.append(Paragraph(item, style))
RECURSIVE ForEach(_, _)
ForEach(items, style) ==
  IF items = <<>> THEN <<>>
  ELSE <<Paragraph(Head(items), style)>> \o ForEach(Tail(items), style)

\* list.insert(0, b) in place of list.append(b)
append_at_front(s, b) == <<b>> \o s

\* list.append
append(s, b) == Append(s, b)

\* the appends of a builder, applied to the story one after the other
RECURSIVE extend(_, _)
extend(s, blocks) ==
  IF blocks = <<>> THEN s ELSE extend(append(s, Head(blocks)), Tail(blocks))

\* -------------------------------------------------------------------- clock
\* datetime.now(): the date of day n of the clock, which starts on
\* 30 December 2025
DateOf(n) ==
  IF n <= 2 THEN [year |-> 2025, month |-> 12, day |-> 29 + n]
  ELSE [year |-> 2026, month |-> 1, day |-> n - 2]

MonthName ==
  <<"January", "February", "March", "April", "May", "June", "July",
    "August", "September", "October", "November", "December">>

\* %d: the day of the month as two digits
Pad2(n) == IF n < 10 THEN "0" \o ToString(n) ELSE ToString(n)

\* strftime('%d de %B, %Y')
strftime(d) ==
  Pad2(d.day) \o " de " \o MonthName[d.month] \o ", " \o ToString(d.year)

\* ------------------------------------------------------------------- styles
Style(parent, fontName, fontSize) ==
  [parent |-> parent, fontName |-> fontName, fontSize |-> fontSize]

\* getSampleStyleSheet(): the style sheet the layout library ships
getSampleStyleSheet ==
  [error |-> "",
   byName |->
     [n \in {"Normal", "BodyText", "Italic", "Heading1", "Title", "Heading2",
             "Heading3", "Heading4", "Heading5", "Heading6", "Bullet",
             "Definition", "Code", "UnorderedList", "OrderedList"} |->
        CASE n = "Normal" -> Style("", "Helvetica", 10)
          [] n = "BodyText" -> Style("Normal", "Helvetica", 10)
          [] n = "Italic" -> Style("BodyText", "Helvetica-Oblique", 10)
          [] n = "Heading1" -> Style("Normal", "Helvetica-Bold", 18)
          [] n = "Title" -> Style("Normal", "Helvetica-Bold", 18)
          [] n = "Heading2" -> Style("Normal", "Helvetica-Bold", 14)
          [] n = "Heading3" -> Style("Normal", "Helvetica-BoldOblique", 12)
          [] n = "Heading4" -> Style("Normal", "Helvetica-BoldOblique", 10)
          [] n = "Heading5" -> Style("Normal", "Helvetica-Bold", 9)
          [] n = "Heading6" -> Style("Normal", "Helvetica-Bold", 7)
          [] n = "Bullet" -> Style("Normal", "Helvetica", 10)
          [] n = "Definition" -> Style("Normal", "Helvetica", 10)
          [] n = "Code" -> Style("Normal", "Courier", 8)
          [] OTHER -> Style("", "Helvetica", 10)]]

\* self.styles.add(ParagraphStyle(name=name, parent=self.styles[parent], ...)):
\* the lookup of a parent that is not registered raises, and so does adding a
\* name that is registered already
add(sheet, name, parent, fontName, fontSize) ==
  IF sheet.error # "" THEN sheet
  ELSE IF parent \notin DOMAIN sheet.byName
    THEN [sheet EXCEPT !.error = "KeyError: parent " \o parent]
  ELSE IF name \in DOMAIN sheet.byName
    THEN [sheet EXCEPT !.error = "KeyError: duplicate " \o name]
  ELSE [sheet EXCEPT !.byName = @ @@ (name :> Style(parent, fontName, fontSize))]

\* _setup_custom_styles as it would be without its last add, of 'Metric'.
_setup_custom_styles_without_metric(sheet) ==
  LET s1 == add(sheet, "CustomTitle", "Heading1", "Helvetica-Bold", 24)
      s2 == add(s1, "CustomSubtitle", "Heading2", "Helvetica-Bold", 16)
      s3 == add(s2, "Section", "Heading2", "Helvetica-Bold", 14)
      s4 == add(s3, "Subsection", "Heading3", "Helvetica-Bold", 12)
      s5 == add(s4, "CustomCode", "Normal", "Courier", 9)
      s6 == add(s5, "Highlight", "BodyText", "Helvetica-Bold", 11)
  IN s6

\* _setup_custom_styles as it would be with 'Highlight' registered under the
\* name 'Highlighted'.
_setup_custom_styles_highlight_renamed(sheet) ==
  LET s1 == add(sheet, "CustomTitle", "Heading1", "Helvetica-Bold", 24)
      s2 == add(s1, "CustomSubtitle", "Heading2", "Helvetica-Bold", 16)
      s3 == add(s2, "Section", "Heading2", "Helvetica-Bold", 14)
      s4 == add(s3, "Subsection", "Heading3", "Helvetica-Bold", 12)
      s5 == add(s4, "CustomCode", "Normal", "Courier", 9)
      s6 == add(s5, "Highlighted", "BodyText", "Helvetica-Bold", 11)
      s7 == add(s6, "Metric", "BodyText", "Helvetica-Bold", 10)
  IN s7

\* _setup_custom_styles as it would be with the code style registered as
\* 'Code', a name the sample style sheet holds already.
_setup_custom_styles_code_clash(sheet) ==
  LET s1 == add(sheet, "CustomTitle", "Heading1", "Helvetica-Bold", 24)
      s2 == add(s1, "CustomSubtitle", "Heading2", "Helvetica-Bold", 16)
      s3 == add(s2, "Section", "Heading2", "Helvetica-Bold", 14)
      s4 == add(s3, "Subsection", "Heading3", "Helvetica-Bold", 12)
      s5 == add(s4, "Code", "Normal", "Courier", 9)
      s6 == add(s5, "Highlight", "BodyText", "Helvetica-Bold", 11)
      s7 == add(s6, "Metric", "BodyText", "Helvetica-Bold", 10)
  IN s7

_setup_custom_styles(sheet) ==
  LET s1 == add(sheet, "CustomTitle", "Heading1", "Helvetica-Bold", 24)
      s2 == add(s1, "CustomSubtitle", "Heading2", "Helvetica-Bold", 16)
      s3 == add(s2, "Section", "Heading2", "Helvetica-Bold", 14)
      s4 == add(s3, "Subsection", "Heading3", "Helvetica-Bold", 12)
      s5 == add(s4, "CustomCode", "Normal", "Courier", 9)
      s6 == add(s5, "Highlight", "BodyText", "Helvetica-Bold", 11)
      s7 == add(s6, "Metric", "BodyText", "Helvetica-Bold", 10)
  IN s7

\* ----------------------------------------------------------- add_cover_page
summary_data ==
  <<
    <<"Componente", "Valor">>,
    <<"Herramientas Analizadas", "88 (73 activas)">>,
    <<"Lineas de Codigo", "53,515">>,
    <<"Tablas de Datos", "8 (Jobs, Contacts, Estimates, Invoices, etc.)">>,
    <<"Reduccion Proyectada de Tokens", "90-98%">>,
    <<"Ahorro Anual Estimado", "$437,400 (deployment mediano)">>,
    <<"ROI Proyectado", "1,458% anual">>
  >>

\* The f-string as it would be if it also held a number that changes from
\* one generate() to the next.
info_text_with_run_number(now) ==
  "<para alignment='center'> <b>Fecha de Generacion:</b> "
  \o strftime(now) \o " (" \o ToString(calls) \o ")"
  \o "<br/> <b>Version del Servidor:</b> 1.0.2<br/> ... </para>"

\* the f-string of the cover page, which holds the date of generation
info_text(now) ==
  "<para alignment='center'> <b>Fecha de Generacion:</b> "
  \o strftime(now)
  \o "<br/> <b>Version del Servidor:</b> 1.0.2<br/> ... </para>"

\* The blocks add_cover_page appends, in the order of its append statements.
add_cover_page ==
  <<
    Paragraph("JobNimbus MCP Remote Server", "CustomTitle"),
    Spacer(1, 3 * inch),
    Paragraph("Analisis Tecnico Especializado de Optimizacion", "CustomSubtitle"),
    Spacer(1, 5 * inch),
    Table(summary_data, <<30 * inch, 25 * inch>>),
    Spacer(1, 5 * inch),
    Paragraph(info_text(DateOf(today)), "BodyText"),
    PageBreak
  >>

\* ---------------------------------------------------- add_executive_summary
summary == "El servidor JobNimbus MCP Remote presenta un <b>"

problems ==
  <<
    "<b>1. Over-Fetching Masivo (CRITICAL):</b> Patro",
    "<b>2. Campos JSONB sin Optimizar (HIGH):</b> Tra",
    "<b>3. Sin Compresion HTTP (CRITICAL):</b> Falta",
    "<b>4. Limites por Defecto Muy Altos (HIGH):</b>",
    "<b>5. Phase 3 No Es Default (MEDIUM):</b> Handle",
    "<b>6. Herramientas Analiticas Sin Optimizar (HIG"
  >>

\* impact_data as it would be with the 'Mejora' cell of the throughput row
\* left out.
impact_data_short_row ==
  <<
    <<"Metrica", "Antes", "Despues", "Mejora">>,
    <<"Response Size", "120 KB", "12 KB", "90% down">>,
    <<"Token Usage", "30,000", "3,000", "90% down">>,
    <<"P50 Latency", "520 ms", "38 ms", "93% down">>,
    <<"P95 Latency", "1,450 ms", "180 ms", "88% down">>,
    <<"Cache Hit Rate", "45%", "87%", "93% up">>,
    <<"Throughput", "140 req/s", "426 req/s">>,
    <<"Costo Mensual", "$40,500", "$4,050", "$36,450 ahorro">>
  >>

impact_data ==
  <<
    <<"Metrica", "Antes", "Despues", "Mejora">>,
    <<"Response Size", "120 KB", "12 KB", "90% down">>,
    <<"Token Usage", "30,000", "3,000", "90% down">>,
    <<"P50 Latency", "520 ms", "38 ms", "93% down">>,
    <<"P95 Latency", "1,450 ms", "180 ms", "88% down">>,
    <<"Cache Hit Rate", "45%", "87%", "93% up">>,
    <<"Throughput", "140 req/s", "426 req/s", "3x up">>,
    <<"Costo Mensual", "$40,500", "$4,050", "$36,450 ahorro">>
  >>

recommendations ==
  <<
    "<b>Semana 1-2:</b> Implementar Query Delegation",
    "<b>Semana 3-4:</b> Implementar JSONB Field Proje",
    "<b>Semana 5-6:</b> Migrar 58 herramientas restan",
    "<b>Mes 2:</b> Implementar Aggregation Service +"
  >>

add_executive_summary ==
  <<
    Paragraph("RESUMEN EJECUTIVO", "Section"),
    Paragraph(summary, "BodyText"),
    Spacer(1, 120),
    Paragraph("Problemas Criticos Identificados:", "Subsection")
  >>
  \o ForEachSpaced(problems, "BodyText", 80)
  \o <<
    Spacer(1, 120),
    Paragraph("Impacto Cuantificado:", "Subsection"),
    Table(impact_data, <<18 * inch, 12 * inch, 12 * inch, 13 * inch>>),
    Spacer(1, 120),
    Paragraph("Recomendaciones Principales (Prioridad CRITICAL):", "Subsection")
  >>
  \o ForEachSpaced(recommendations, "BodyText", 80)
  \o <<PageBreak>>

\* --------------------------------------------------- add_technical_analysis
arch_text == "El servidor utiliza una arquitectura de <b>4 cap"

stack_data ==
  <<
    <<"Componente", "Tecnologia", "Version">>,
    <<"Runtime", "Node.js", ">=20.0.0">>,
    <<"Framework", "Express.js", "4.18.2">>,
    <<"Lenguaje", "TypeScript", "5.9.3">>,
    <<"Protocol", "MCP SDK", "0.5.0">>,
    <<"Cache", "Redis (ioredis)", "5.8.1">>,
    <<"Security", "Helmet", "7.1.0">>,
    <<"Logging", "Winston", "3.11.0">>,
    <<"Validation", "Zod", "3.22.4">>
  >>

transmission_text == "La transmision de datos actual presenta <b>inefi"

transmission_issues ==
  <<
    "<b>Nivel 1 - Fetch:</b> Se descargan 95-99% mas",
    "<b>Nivel 2 - Serializacion:</b> Campos JSONB (cu",
    "<b>Nivel 3 - Compresion:</b> No hay middleware d"
  >>

scenarios_data ==
  <<
    <<"Escenario", "Fetch", "Return", "Desperdicio", "Tokens">>,
    <<"Get Jobs (sin filtros)", "12 KB", "12 KB", "0%", "3,000">>,
    <<"Get Jobs (filtros fecha)", "300 MB", "30 KB", "99.99%", "7,500">>,
    <<"Insurance Pipeline", "40 MB", "200 KB", "99.5%", "50,000">>,
    <<"Get Job (con verify)", "2.65 MB", "8 KB", "99.7%", "2,000">>,
    <<"Revenue Report", "150 MB", "500 KB", "99.67%", "1,250,000">>
  >>

add_technical_analysis ==
  <<
    Paragraph("ANALISIS TECNICO DETALLADO", "Section"),
    Paragraph("1. Arquitectura Actual del Sistema", "Subsection"),
    Paragraph(arch_text, "BodyText"),
    Spacer(1, 120),
    Paragraph("Stack Tecnologico:", "Subsection"),
    Table(stack_data, <<18 * inch, 20 * inch, 15 * inch>>),
    Spacer(1, 150),
    Paragraph("2. Analisis de Transmision de Datos", "Subsection"),
    Paragraph(transmission_text, "BodyText"),
    Spacer(1, 100)
  >>
  \o ForEachSpaced(transmission_issues, "BodyText", 80)
  \o <<
    Spacer(1, 120),
    Paragraph("Escenarios de Uso y Consumo de Datos:", "Subsection"),
    Table(scenarios_data,
          <<15 * inch, 10 * inch, 10 * inch, 10 * inch, 10 * inch>>),
    Spacer(1, 100),
    Paragraph("<b>! NOTA CRITICA:</b> Los escenarios con desperdi", "Highlight"),
    PageBreak
  >>

\* ---------------------------------------------- add_optimization_strategies
intro_strategies == "Se han disenado <b>6 estrategias de optimizacion"
strategy1 == "<b>Objetivo:</b> Delegar filtrado, ordenamiento"
code1 == "// ANTES (fetch-all-then-filter) const allJobs ="
strategy2 == "<b>Objetivo:</b> Seleccionar solo los campos nec"
code2 == "// Implementacion de field selection interface A"
strategy3 == "<b>Objetivo:</b> Forzar uso del sistema handle-b"
code3 == "// En BaseTool.execute() async execute(input: TI"

additional_strategies ==
  <<
    "<b>Estrategia 4 - HTTP Compression:</b> Agregar",
    "<b>Estrategia 5 - Reduced Default Limits:</b> Ca",
    "<b>Estrategia 6 - Smart Cache Multi-Tier:</b> Im"
  >>

\* One strategy as it would be with its snippet in the registered
\* 'CustomCode' style.
Strategy_custom_code(heading, text, code) ==
  <<
    Paragraph(heading, "Subsection"),
    Paragraph(text, "BodyText"),
    Spacer(1, 100),
    Paragraph(code, "CustomCode"),
    Spacer(1, 120)
  >>

\* the statements of one strategy: heading, description, gap, code snippet
\* in self.styles['Code'], gap
Strategy(heading, text, code) ==
  <<
    Paragraph(heading, "Subsection"),
    Paragraph(text, "BodyText"),
    Spacer(1, 100),
    Paragraph(code, "Code"),
    Spacer(1, 120)
  >>

add_optimization_strategies ==
  <<
    Paragraph("ESTRATEGIAS DE OPTIMIZACION", "Section"),
    Paragraph(intro_strategies, "BodyText"),
    Spacer(1, 150)
  >>
  \o Strategy("Estrategia 1: Query Delegation Pattern", strategy1, code1)
  \o Strategy("Estrategia 2: JSONB Field Projection", strategy2, code2)
  \o Strategy("Estrategia 3: Mandatory Phase 3 Enforcement", strategy3, code3)
  \o <<Paragraph("Estrategias Adicionales (4-6):", "Subsection")>>
  \o ForEachSpaced(additional_strategies, "BodyText", 80)
  \o <<PageBreak>>

\* -------------------------------------------------- add_implementation_plan
intro_plan == "El plan de implementacion esta estructurado en <"

phase1 == "<b>Objetivo:</b> Establecer infraestructura base"
phase1_deliverables ==
  <<
    "* Query Parser & Validator con Zod",
    "* Field Selector Engine para JSONB projection",
    "* Backward Compatibility Middleware",
    "* Unit tests (>80% coverage)"
  >>
phase1_success == "<b>Metricas de Exito:</b> Validacion de queries"

phase2 == "<b>Objetivo:</b> Implementar compresion, transfo"
phase2_deliverables ==
  <<
    "* Data Transformer con 4 niveles de verbosity",
    "* Compression Middleware (GZIP + Brotli)",
    "* Smart Cache Manager (3 tiers)",
    "* Integration tests"
  >>
phase2_success == "<b>Metricas de Exito:</b> 60% reduccion en respo"

phase3 == "<b>Objetivo:</b> Agregar inteligencia predictiva"
phase3_deliverables ==
  <<
    "* Access Pattern Analyzer",
    "* Predictive Cache Warming (ML-based)",
    "* Dynamic TTL Manager",
    "* Performance benchmarks"
  >>
phase3_success == "<b>Metricas de Exito:</b> Cache hit rate >70%, p"

phase4 == "<b>Objetivo:</b> Migrar todas las 88 herramienta"
phase4_deliverables ==
  <<
    "* 88 herramientas migradas a Phase 3",
    "* Documentacion actualizada (README, API docs)",
    "* E2E testing suite",
    "* Staging deployment"
  >>
phase4_success == "<b>Metricas de Exito:</b> 100% herramientas migr"

phase5 == "<b>Objetivo:</b> Limpiar codigo legacy y lanzar"
phase5_deliverables ==
  <<
    "* Codigo legacy removido",
    "* Performance tuning final",
    "* Production deployment",
    "* Monitoring dashboard configurado"
  >>
phase5_success == "<b>Metricas de Exito:</b> Production estable, me"

timeline_data ==
  <<
    <<"Fase", "Semanas", "Inversion", "Entregables Clave">>,
    <<"1. Foundation", "1-2", "$6,000", "Query Parser, Field Selector">>,
    <<"2. Optimization", "3-4", "$6,000", "Compression, Cache, Transformer">>,
    <<"3. Intelligence", "5-6", "$6,000", "Predictive Cache, Dynamic TTL">>,
    <<"4. Migration", "7-8", "$8,000", "88 tools migrated, E2E tests">>,
    <<"5. Launch", "9-10", "$4,000", "Production deployment, monitoring">>,
    <<"TOTAL", "10 semanas", "$30,000", "+ $10/mes operacional">>
  >>

\* One "Fase" of the plan: heading, text, deliverables, spacer, metric, spacer.
\* The source writes these statements out five times.
Phase(heading, text, deliverables, success) ==
  <<Paragraph(heading, "Subsection"), Paragraph(text, "BodyText")>>
  \o ForEach(deliverables, "BodyText")
  \o <<Spacer(1, 80), Paragraph(success, "Metric"), Spacer(1, 120)>>

add_implementation_plan ==
  <<
    Paragraph("PLAN DE IMPLEMENTACION", "Section"),
    Paragraph(intro_plan, "BodyText"),
    Spacer(1, 150)
  >>
  \o Phase("Fase 1: Foundation (Semana 1-2)", phase1,
           phase1_deliverables, phase1_success)
  \o Phase("Fase 2: Optimization Layer (Semana 3-4)", phase2,
           phase2_deliverables, phase2_success)
  \o Phase("Fase 3: Intelligence Layer (Semana 5-6)", phase3,
           phase3_deliverables, phase3_success)
  \o Phase("Fase 4: Full Migration (Semana 7-8)", phase4,
           phase4_deliverables, phase4_success)
  \o Phase("Fase 5: Cleanup & Launch (Semana 9-10)", phase5,
           phase5_deliverables, phase5_success)
  \o <<
    Table(timeline_data, <<12 * inch, 10 * inch, 10 * inch, 23 * inch>>),
    PageBreak
  >>

\* --------------------------------------------------------- add_roi_analysis
intro_roi == "El analisis de ROI considera tres escenarios de"

costs_data ==
  <<
    <<"Deployment", "Usuarios", "Antes", "Despues", "Ahorro/Mes", "Ahorro/Ano">>,
    <<"Pequeno", "10", "$8,100", "$810", "$7,290", "$87,480">>,
    <<"Mediano", "50", "$40,500", "$4,050", "$36,450", "$437,400">>,
    <<"Grande", "200", "$162,000", "$16,200", "$145,800", "$1,749,600">>
  >>

roi_data ==
  <<
    <<"Periodo", "Inversion", "Ahorro", "ROI", "Payback">>,
    <<"Ano 1", "$30,010", "$437,400", "1,458%", "0.82 meses">>,
    <<"Ano 3", "$30,370", "$1,312,200", "4,321%", "-">>,
    <<"Ano 5", "$30,730", "$2,187,000", "7,115%", "-">>
  >>

intangible_benefits ==
  <<
    "<b>Experiencia de Usuario Mejorada:</b> Reduccio",
    "<b>Escalabilidad:</b> Throughput aumenta 3x (140",
    "<b>Calidad de Respuestas:</b> Menos tokens despe",
    "<b>Competitividad:</b> Sistema enterprise-grade"
  >>

add_roi_analysis ==
  <<
    Paragraph("ANALISIS DE ROI Y METRICAS FINANCIERAS", "Section"),
    Paragraph(intro_roi, "BodyText"),
    Spacer(1, 150),
    Paragraph("Costos Operacionales Mensuales:", "Subsection"),
    Table(costs_data,
          <<12 * inch, 9 * inch, 10 * inch, 10 * inch, 11 * inch, 11 * inch>>),
    Spacer(1, 150),
    Paragraph("ROI por Escenario (Deployment Mediano):", "Subsection"),
    Table(roi_data, <<12 * inch, 12 * inch, 12 * inch, 10 * inch, 12 * inch>>),
    Spacer(1, 150),
    Paragraph("Beneficios Intangibles:", "Subsection")
  >>
  \o ForEachSpaced(intangible_benefits, "BodyText", 80)
  \o <<PageBreak>>

\* ---------------------------------------------------------- add_conclusions
conclusions ==
  <<
    "<b>1. Problema Critico Confirmado:</b> El servid",
    "<b>2. Solucion Enterprise-Grade Disenada:</b> Ar",
    "<b>3. ROI Excepcional:</b> Inversion de $30,010",
    "<b>4. Implementacion Gradual:</b> Plan de 10 sem",
    "<b>5. Impacto Cuantificado:</b> Reduccion del 90"
  >>

next_steps ==
  <<
    "<b>Semana 1 (Inmediato):</b> Implementar compres",
    "<b>Semana 2-3:</b> Implementar Query Delegation",
    "<b>Semana 4-6:</b> Implementar JSONB Field Proje",
    "<b>Mes 2-3:</b> Ejecutar plan completo de 10 sem"
  >>

risks ==
  <<
    "<b>Riesgo 1 - Breaking Changes:</b> Mitigacion:",
    "<b>Riesgo 2 - Complejidad Tecnica:</b> Mitigacio",
    "<b>Riesgo 3 - Testing Exhaustivo:</b> Mitigacion",
    "<b>Riesgo 4 - Resistencia al Cambio:</b> Mitigac"
  >>

final_note == "<para alignment='center'> <b>Este reporte tecnic"

add_conclusions ==
  <<
    Paragraph("CONCLUSIONES Y PROXIMOS PASOS", "Section"),
    Paragraph("Conclusiones Principales:", "Subsection")
  >>
  \o ForEachSpaced(conclusions, "BodyText", 100)
  \o <<
    Spacer(1, 150),
    Paragraph("Proximos Pasos Recomendados:", "Subsection")
  >>
  \o ForEachSpaced(next_steps, "BodyText", 80)
  \o <<
    Spacer(1, 150),
    Paragraph("Riesgos Identificados y Mitigacion:", "Subsection")
  >>
  \o ForEachSpaced(risks, "BodyText", 80)
  \o <<
    Spacer(1, 200),
    Paragraph(final_note, "BodyText")
  >>

\* ----------------------------------------------------------------- generate
Builders ==
  {"add_cover_page", "add_executive_summary", "add_technical_analysis",
   "add_optimization_strategies", "add_implementation_plan",
   "add_roi_analysis", "add_conclusions"}

\* The blocks the builder named b appends when it runs now.
Blocks(b) ==
  CASE b = "add_cover_page" -> add_cover_page
    [] b = "add_executive_summary" -> add_executive_summary
    [] b = "add_technical_analysis" -> add_technical_analysis
    [] b = "add_optimization_strategies" -> add_optimization_strategies
    [] b = "add_implementation_plan" -> add_implementation_plan
    [] b = "add_roi_analysis" -> add_roi_analysis
    [] b = "add_conclusions" -> add_conclusions

\* The first statement of generate() after its opening print.
FirstStep == "add_cover_page"

\* generate() with the calls of add_executive_summary and
\* add_technical_analysis exchanged.
Successor_sections_exchanged(p) ==
  CASE p = "add_cover_page" -> "add_technical_analysis"
    [] p = "add_technical_analysis" -> "add_executive_summary"
    [] p = "add_executive_summary" -> "add_optimization_strategies"
    [] p = "add_optimization_strategies" -> "add_implementation_plan"
    [] p = "add_implementation_plan" -> "add_roi_analysis"
    [] p = "add_roi_analysis" -> "add_conclusions"
    [] p = "add_conclusions" -> "build"
    [] p = "build" -> "report"

\* generate() with self.doc.build called before add_conclusions.
Successor_build_before_conclusions(p) ==
  CASE p = "add_cover_page" -> "add_executive_summary"
    [] p = "add_executive_summary" -> "add_technical_analysis"
    [] p = "add_technical_analysis" -> "add_optimization_strategies"
    [] p = "add_optimization_strategies" -> "add_implementation_plan"
    [] p = "add_implementation_plan" -> "add_roi_analysis"
    [] p = "add_roi_analysis" -> "build"
    [] p = "build" -> "add_conclusions"
    [] p = "add_conclusions" -> "report"

\* The statement of generate() that follows statement p.
Successor(p) ==
  CASE p = "add_cover_page" -> "add_executive_summary"
    [] p = "add_executive_summary" -> "add_technical_analysis"
    [] p = "add_technical_analysis" -> "add_optimization_strategies"
    [] p = "add_optimization_strategies" -> "add_implementation_plan"
    [] p = "add_implementation_plan" -> "add_roi_analysis"
    [] p = "add_roi_analysis" -> "add_conclusions"
    [] p = "add_conclusions" -> "build"
    [] p = "build" -> "report"

\* A builder that registers a style of its own each time it runs.
styles_after_builder_adding_style(b) ==
  add(styles, "Caption", "Normal", "Helvetica", 8)

\* self.styles after a run of builder b, whole or cut short by an exception:
\* a builder only reads the registry, with self.styles[name].
styles_after_builder(b) == styles

\* self.styles[name] raises KeyError for a name that is not registered: the
\* index of the first block whose style lookup raises, 0 when none does.
MissingStyle(blocks) ==
  LET bad == {i \in 1..Len(blocks) :
                /\ blocks[i].kind = "Paragraph"
                /\ blocks[i].style \notin DOMAIN styles.byName}
  IN IF bad = {} THEN 0 ELSE CHOOSE i \in bad : \A j \in bad : i <= j

\* An exception caught and dropped inside generate(), which carries on to
\* its closing prints.
Raise_swallowed(why) ==
  /\ pc' = "report"
  /\ outcome' = "running"
  /\ cause' = why
  /\ context' = "none"
  /\ result' = "none"

\* What an exception does to generate(): nothing catches it, so it reaches
\* the caller as it was raised; no statement of generate() or of a builder
\* adds the name of a section to it, and a block holds no such name.
Raise(why) ==
  /\ pc' = "idle"
  /\ outcome' = "raised"
  /\ cause' = why
  /\ context' = "none"
  /\ result' = "none"

\* the list after the layout engine has handled its first c blocks
Leftover(s, c) == IF consumes THEN SubSeq(s, c + 1, Len(s)) ELSE s

Init ==
  /\ story = <<>>
  /\ styles = _setup_custom_styles(getSampleStyleSheet)
  /\ pc = IF styles.error = "" THEN "idle" ELSE "no instance"
  /\ outcome = "none"
  /\ cause = "none"
  /\ context = "none"
  /\ result = "none"
  /\ stdout = <<>>
  /\ invoked = <<>>
  /\ builds = 0
  /\ calls = 0
  /\ handed = <<>>
  /\ ran = {}
  /\ file = "absent"
  /\ today = 1
  /\ writable \in BOOLEAN
  /\ consumes \in BOOLEAN

\* generator.generate() is called; it prints its opening line.
Generate ==
  /\ pc = "idle"
  /\ calls < MaxCalls
  /\ calls' = calls + 1
  /\ pc' = FirstStep
  /\ outcome' = "running"
  /\ cause' = "none"
  /\ context' = "none"
  /\ result' = "none"
  /\ stdout' = <<"Generando reporte">>
  /\ invoked' = <<>>
  /\ builds' = 0
  /\ UNCHANGED <<story, styles, handed, ran, file, today, writable, consumes>>

\* A section builder runs to its end.
BuilderReturns ==
  /\ pc \in Builders
  /\ MissingStyle(Blocks(pc)) = 0
  /\ story' = extend(story, Blocks(pc))
  /\ invoked' = Append(invoked, pc)
  /\ ran' = ran \cup {[builder |-> pc, date |-> DateOf(today),
                       blocks |-> SubSeq(story', Len(story) + 1, Len(story'))]}
  /\ pc' = Successor(pc)
  /\ styles' = styles_after_builder(pc)
  /\ UNCHANGED <<outcome, cause, context, result, stdout, builds, calls, handed,
                 file, today, writable, consumes>>

\* A section builder raises after k of its appends: at the lookup of a style
\* that is not registered, or in a constructor of the layout library.
BuilderRaises ==
  /\ pc \in Builders
  /\ LET blocks == Blocks(pc)
         m == MissingStyle(blocks)
         last == IF m > 0 THEN m - 1 ELSE Len(blocks) - 1
     IN \E k \in (0..Min(MaxFailPoint, last)) \cup (IF m > 0 THEN {m - 1} ELSE {}) :
          /\ story' = extend(story, SubSeq(blocks, 1, k))
          /\ Raise(IF m > 0 /\ k = m - 1 THEN "KeyError" ELSE "constructor")
  /\ invoked' = Append(invoked, pc)
  /\ styles' = styles_after_builder(pc)
  /\ UNCHANGED <<stdout, builds, calls, handed, ran, file, today,
                 writable, consumes>>

\* self.doc.build(self.story) lays the story out and writes the file.
BuildReturns ==
  /\ pc = "build"
  /\ writable
  /\ handed' = Append(handed, [story |-> story, call |-> calls, ok |-> TRUE])
  /\ builds' = builds + 1
  /\ story' = Leftover(story, Len(story))
  /\ file' = "complete"
  /\ pc' = Successor(pc)
  /\ UNCHANGED <<styles, outcome, cause, context, result, stdout, invoked, calls, ran,
                 today, writable, consumes>>

\* self.doc.build(self.story) raises while laying out a block, before it has
\* opened the file.
BuildRaisesInLayout ==
  /\ pc = "build"
  /\ handed' = Append(handed, [story |-> story, call |-> calls, ok |-> FALSE])
  /\ builds' = builds + 1
  /\ \E c \in 0..Min(MaxFailPoint, Len(story)) : story' = Leftover(story, c)
  /\ Raise("layout")
  /\ UNCHANGED <<styles, stdout, invoked, calls, ran, file, today, writable,
                 consumes>>

\* self.doc.build(self.story) raises when it saves the laid out document:
\* the file cannot be opened, or writing to it fails part way.
BuildRaisesInSave ==
  /\ pc = "build"
  /\ handed' = Append(handed, [story |-> story, call |-> calls, ok |-> FALSE])
  /\ builds' = builds + 1
  /\ story' = Leftover(story, Len(story))
  /\ IF writable
       THEN file' = "partial" /\ Raise("write")
       ELSE file' = file /\ Raise("path")
  /\ UNCHANGED <<styles, stdout, invoked, calls, ran, today, writable, consumes>>

\* The two prints after the build and the return; os.path.getsize raises
\* when there is no file.
Report ==
  /\ pc = "report"
  /\ IF file = "absent"
       THEN /\ stdout' = Append(stdout, "Reporte generado exitosamente")
            /\ Raise("getsize")
       ELSE /\ stdout' = stdout \o <<"Reporte generado exitosamente", "Tamano">>
            /\ pc' = "idle"
            /\ outcome' = "returned"
            /\ result' = filename
            /\ cause' = "none"
            /\ context' = "none"
  /\ UNCHANGED <<story, styles, invoked, builds, calls, handed, ran, file,
                 today, writable, consumes>>

\* The clock passes midnight.  Only add_cover_page reads the clock, and it
\* reads it once, so a midnight during generate() is the same as one just
\* before or just after the call.
Midnight ==
  /\ pc = "idle"
  /\ today < MaxDay
  /\ today' = today + 1
  /\ UNCHANGED <<story, styles, pc, outcome, cause, context, result, stdout, invoked,
                 builds, calls, handed, ran, file, writable, consumes>>

Next ==
  \/ Generate
  \/ BuilderReturns
  \/ BuilderRaises
  \/ BuildReturns
  \/ BuildRaisesInLayout
  \/ BuildRaisesInSave
  \/ Report
  \/ Midnight

Spec == Init /\ [][Next]_vars

\* ================================================================== claims
\* The order in which generate() is documented to run the section builders.
Order ==
  <<"add_cover_page", "add_executive_summary", "add_technical_analysis",
    "add_optimization_strategies", "add_implementation_plan",
    "add_roi_analysis", "add_conclusions">>

Range(s) == {s[i] : i \in 1..Len(s)}

SuccessMessage == "Reporte generado exitosamente"

\* C1: in every run of generate() the builders called so far are an initial
\* part of the fixed order cover page, executive summary, technical analysis,
\* optimization strategies, implementation plan, ROI analysis, conclusions;
\* the builder about to start is the next one of that order, and it starts
\* only when the story ends with all the blocks of the one before it; once
\* the run is past the builders, each of the seven has been called exactly
\* once.
C1_BuildersOnceInOrder ==
  /\ IsPrefix(invoked, Order)
  /\ (pc \in Builders =>
        /\ Len(invoked) < Len(Order)
        /\ pc = Order[Len(invoked) + 1]
        /\ (invoked # <<>> => IsSuffix(Blocks(invoked[Len(invoked)]), story)))
  /\ (pc \in {"build", "report"} \/ outcome = "returned" => invoked = Order)

C1_Witness == outcome = "returned" /\ invoked = Order /\ calls = 2

\* The seven sections as the builders append them today, and whether s is
\* that sequence but for the date in the text of the cover's seventh block.
AllSections ==
  add_cover_page \o add_executive_summary \o add_technical_analysis
  \o add_optimization_strategies \o add_implementation_plan
  \o add_roi_analysis \o add_conclusions

SameButDate(s, t) ==
  /\ Len(s) = Len(t)
  /\ \A i \in 1..Len(s) :
       \/ s[i] = t[i]
       \/ i = 7 /\ [s[i] EXCEPT !.text = ""] = [t[i] EXCEPT !.text = ""]

HoldsAllSections(s) ==
  /\ Len(s) >= Len(AllSections)
  /\ SameButDate(SubSeq(s, Len(s) - Len(AllSections) + 1, Len(s)), AllSections)

\* C2: a run of generate() calls self.doc.build at most once, and exactly
\* once when it returns; the call comes after all seven builders have run,
\* and every story the layout engine has received ends with the blocks of
\* all seven sections; no run has handed its story over twice.
C2_RenderOnceAfterAllSections ==
  /\ builds <= 1
  /\ (builds = 1 => invoked = Order)
  /\ (outcome = "returned" => builds = 1)
  /\ \A i \in 1..Len(handed) : HoldsAllSections(handed[i].story)
  /\ \A i, j \in 1..Len(handed) : handed[i].call = handed[j].call => i = j

C2_Witness ==
  /\ Len(handed) = 2
  /\ handed[1].ok
  /\ handed[2].call = 2
  /\ outcome = "returned"

\* C3: a step of a section builder, whether it returns or raises, leaves the
\* story it found as a prefix of the story it leaves: no block appended
\* before is removed, replaced or moved, and the story does not get shorter.
C3_AppendOnly ==
  [][(pc \in Builders) =>
        (IsPrefix(story, story') /\ Len(story) <= Len(story'))]_vars

C3_Witness ==
  /\ pc = "add_conclusions"
  /\ calls = 2
  /\ Len(story) > Len(AllSections)

\* the number of blocks each builder is documented to contribute
Contribution(b) ==
  CASE b = "add_cover_page" -> 8
    [] b = "add_executive_summary" -> 30
    [] b = "add_technical_analysis" -> 22
    [] b = "add_optimization_strategies" -> 26
    [] b = "add_implementation_plan" -> 50
    [] b = "add_roi_analysis" -> 19
    [] b = "add_conclusions" -> 34

\* C4: every completed run of a builder has appended 8 (cover), 30
\* (executive summary), 22 (technical analysis), 26 (optimization
\* strategies), 50 (implementation plan), 19 (ROI) or 34 (conclusions)
\* blocks; during the first generate() on a fresh instance the story holds
\* 0, 8, 38, 60, 86, 136, 155 blocks before the respective builder and 189
\* before the build, and the story handed to the layout engine by the first
\* generate() holds 189 blocks.
C4_BlockCounts ==
  /\ \A r \in ran : Len(r.blocks) = Contribution(r.builder)
  /\ (calls = 1 /\ outcome = "running" /\ pc \in Builders \cup {"build"} =>
        Len(story) =
          CASE pc = "add_cover_page" -> 0
            [] pc = "add_executive_summary" -> 8
            [] pc = "add_technical_analysis" -> 38
            [] pc = "add_optimization_strategies" -> 60
            [] pc = "add_implementation_plan" -> 86
            [] pc = "add_roi_analysis" -> 136
            [] pc = "add_conclusions" -> 155
            [] pc = "build" -> 189)
  /\ \A i \in 1..Len(handed) :
       handed[i].call = 1 => Len(handed[i].story) = 189

C4_Witness ==
  /\ Len(handed) >= 1
  /\ handed[1].call = 1
  /\ handed[1].ok
  /\ Cardinality({r.builder : r \in ran}) = 7

\* C5 as stated: any two completed runs of the same builder (the style
\* registry is the same in all of them) have appended the same blocks,
\* whatever the date of each run.
C5_SameBlocksWhateverTheDate ==
  \A r1, r2 \in ran : r1.builder = r2.builder => r1.blocks = r2.blocks

\* C5, amended: any two completed runs of the same builder other than
\* add_cover_page have appended the same blocks whatever the date of each
\* run; two runs of add_cover_page have appended the same blocks when they
\* ran on the same date, and otherwise blocks of the same kinds and styles
\* that differ only in the text of the seventh one, which holds the date.
C5_SameBlocksButCoverDate ==
  \A r1, r2 \in ran :
    r1.builder = r2.builder =>
      /\ SameButDate(r1.blocks, r2.blocks)
      /\ (r1.builder # "add_cover_page" \/ r1.date = r2.date =>
            r1.blocks = r2.blocks)

C5_Witness ==
  /\ \E r1, r2 \in ran :
       /\ r1.builder = "add_cover_page" /\ r2.builder = "add_cover_page"
       /\ r1.date # r2.date
  /\ \E r1, r2 \in ran :
       /\ r1.builder = "add_conclusions" /\ r2.builder = "add_conclusions"
       /\ r1.date # r2.date

\* C6 as stated: once a generate() has rendered, every later generate() on
\* the instance hands the layout engine the story that was rendered then
\* (nothing in generate() rejects a second call).
C6_SecondRenderIdentical ==
  \A i, j \in 1..Len(handed) :
    i < j /\ handed[i].ok => handed[j].story = handed[i].story

\* the tables of a sequence of blocks, in order: their rows, their row counts
Tables(s) == SelectSeq(s, LAMBDA b : b.kind = "Table")

TableData(s) == [i \in 1..Len(Tables(s)) |-> Tables(s)[i].data]

TableRows(s) == [i \in 1..Len(Tables(s)) |-> Len(Tables(s)[i].data)]

\* C7: the tables a builder has appended hold the data lists they were
\* built from, whole and in order, and so 7 rows (cover summary), 8 (impact),
\* 9 (stack) and 6 (scenarios), 7 (timeline), 4 (costs) and 4 (ROI); the
\* story the first generate() hands to the layout engine carries seven
\* tables of 7, 8, 9, 6, 7, 4 and 4 rows.
C7_TableRows ==
  /\ \A r \in ran :
       /\ TableData(r.blocks) =
            CASE r.builder = "add_cover_page" -> <<summary_data>>
              [] r.builder = "add_executive_summary" -> <<impact_data>>
              [] r.builder = "add_technical_analysis" ->
                   <<stack_data, scenarios_data>>
              [] r.builder = "add_implementation_plan" -> <<timeline_data>>
              [] r.builder = "add_roi_analysis" -> <<costs_data, roi_data>>
              [] OTHER -> <<>>
       /\ TableRows(r.blocks) =
            CASE r.builder = "add_cover_page" -> <<7>>
              [] r.builder = "add_executive_summary" -> <<8>>
              [] r.builder = "add_technical_analysis" -> <<9, 6>>
              [] r.builder = "add_implementation_plan" -> <<7>>
              [] r.builder = "add_roi_analysis" -> <<4, 4>>
              [] OTHER -> <<>>
  /\ \A i \in 1..Len(handed) :
       handed[i].call = 1 =>
         TableRows(handed[i].story) = <<7, 8, 9, 6, 7, 4, 4>>

C7_Witness ==
  /\ Len(handed) >= 1
  /\ handed[1].call = 1
  /\ Len(Tables(handed[1].story)) = 7
  /\ {r.builder : r \in ran} = Builders

\* C8 as stated: when the output path cannot be written and generate() has
\* raised for it, no section builder has run in that generate() and the
\* layout engine has not been given the story.
C8_PathErrorBeforeAnyWork ==
  ~writable /\ outcome = "raised" /\ cause = "path" =>
    invoked = <<>> /\ builds = 0

\* C9 as stated: when generate() has ended, either it returned and the
\* complete file exists, or it raised and no partly written file is at the
\* output path.
C9_AllOrNothing ==
  pc = "idle" /\ outcome \in {"returned", "raised"} =>
    \/ outcome = "returned" /\ file = "complete"
    \/ outcome = "raised" /\ file # "partial"

\* C10: once a section builder, self.doc.build or os.path.getsize has
\* raised in a generate(), that generate() has ended with the exception and
\* returned nothing; a failure of a builder leaves that builder the last one
\* called and self.doc.build not called; a failure of a builder or of
\* self.doc.build leaves the success message unprinted; self.doc.build is
\* called at most once per generate(); and generate() has returned the
\* filename only when the self.doc.build it called completed and the message
\* was printed after it.
C10_FailuresFatalNoRetry ==
  /\ (cause # "none" =>
        /\ outcome = "raised"
        /\ pc = "idle"
        /\ result = "none")
  /\ (outcome = "raised" => cause # "none")
  /\ (cause \in {"constructor", "KeyError"} =>
        /\ builds = 0
        /\ invoked # <<>>
        /\ IsPrefix(invoked, Order))
  /\ (cause \in {"constructor", "KeyError", "layout", "path", "write"} =>
        SuccessMessage \notin Range(stdout))
  /\ builds <= 1
  /\ (cause \in {"layout", "path", "write"} =>
        /\ builds = 1
        /\ ~handed[Len(handed)].ok)
  /\ (result # "none" =>
        /\ result = filename
        /\ outcome = "returned"
        /\ builds = 1
        /\ handed[Len(handed)].ok
        /\ handed[Len(handed)].call = calls
        /\ SuccessMessage \in Range(stdout))

C10_Witness ==
  /\ outcome = "raised"
  /\ cause = "constructor"
  /\ Len(invoked) = 3
  /\ calls = 2
  /\ Len(handed) = 1

\* C11 as stated: when generate() has raised because the layout engine
\* failed on a block, the failure it reports names the section, one of the
\* seven, whose builder appended that block.
C11_LayoutErrorNamesSection ==
  outcome = "raised" /\ cause = "layout" => context \in Builders

\* the seven styles _setup_custom_styles is documented to register
CustomNames ==
  {"CustomTitle", "CustomSubtitle", "Section", "Subsection", "CustomCode",
   "Highlight", "Metric"}

\* the names of the style sheet the layout library ships
SampleNames == DOMAIN getSampleStyleSheet.byName

\* C12: __init__ completes and leaves a registry that holds the sample
\* styles of the library and the seven custom styles CustomTitle,
\* CustomSubtitle, Section, Subsection, CustomCode, Highlight and Metric,
\* and nothing else; the story is empty until the first section builder of
\* the first generate() runs.
C12_FreshAssembler ==
  /\ pc # "no instance"
  /\ styles.error = ""
  /\ DOMAIN styles.byName = SampleNames \cup CustomNames
  /\ Cardinality(DOMAIN styles.byName) = Cardinality(SampleNames) + 7
  /\ (calls = 0 \/ (calls = 1 /\ pc = "add_cover_page") => story = <<>>)

C12_Witness ==
  /\ calls = 1
  /\ pc = "add_cover_page"
  /\ story = <<>>
  /\ CustomNames \subseteq DOMAIN styles.byName

\* C13: in every state the registry is the one __init__ built: no section
\* builder, whether it returns or raises, and no other step of generate()
\* adds, removes or changes a style.
C13_StylesImmutable ==
  styles = _setup_custom_styles(getSampleStyleSheet)

C13_Witness ==
  /\ calls = 2
  /\ outcome = "returned"
  /\ {r.builder : r \in ran} = Builders
  /\ styles.error = ""

\* the style names the paragraphs of a sequence of blocks were built with
StylesOf(blocks) ==
  {blocks[i].style : i \in {j \in 1..Len(blocks) : blocks[j].kind = "Paragraph"}}

LookedUp ==
  {"CustomTitle", "CustomSubtitle", "Section", "Subsection", "BodyText",
   "Highlight", "Metric", "Code"}

\* C14: the builder about to run looks up only names among CustomTitle,
\* CustomSubtitle, Section, Subsection, BodyText, Highlight, Metric and Code,
\* all of them registered at that moment; no generate() has raised KeyError;
\* and the seven builders together look up exactly those eight names.
C14_LookupsSucceed ==
  /\ (pc \in Builders =>
        /\ StylesOf(Blocks(pc)) \subseteq LookedUp
        /\ StylesOf(Blocks(pc)) \subseteq DOMAIN styles.byName
        /\ MissingStyle(Blocks(pc)) = 0)
  /\ cause # "KeyError"
  /\ (pc = "build" => UNION {StylesOf(r.blocks) : r \in ran} = LookedUp)

C14_Witness ==
  /\ pc = "build"
  /\ calls = 2
  /\ cause = "none"
  /\ Len(story) > Len(AllSections)

\* C15 as stated: once the story has been handed to the layout engine the
\* assembler is in its terminal state: no section builder is running or
\* about to run, and the story holds no block that was not in it, at the same
\* place, when it was handed over.
C15_RenderedIsTerminal ==
  Len(handed) > 0 =>
    /\ pc \notin Builders
    /\ IsPrefix(story, handed[1].story)

\* the number of column widths of each table of a sequence of blocks
TableCols(s) == [i \in 1..Len(Tables(s)) |-> Len(Tables(s)[i].colWidths)]

\* every row of the table, header included, has one cell per column width
Rectangular(t) ==
  \A i \in 1..Len(t.data) : Len(t.data[i]) = Len(t.colWidths)

\* C16: every table a builder has appended has, in each of its rows, header
\* and data alike, as many cells as its colWidths list has widths: 2 for the
\* cover summary, 4 for the impact table, 3 and 5 for the stack and scenario
\* tables, 4 for the timeline, 6 and 5 for the cost and ROI tables; the story
\* the first generate() hands to the layout engine carries seven rectangular
\* tables of 2, 4, 3, 5, 4, 6 and 5 columns, in that order.
C16_TablesRectangular ==
  /\ \A r \in ran :
       /\ \A i \in 1..Len(Tables(r.blocks)) : Rectangular(Tables(r.blocks)[i])
       /\ TableCols(r.blocks) =
            CASE r.builder = "add_cover_page" -> <<2>>
              [] r.builder = "add_executive_summary" -> <<4>>
              [] r.builder = "add_technical_analysis" -> <<3, 5>>
              [] r.builder = "add_implementation_plan" -> <<4>>
              [] r.builder = "add_roi_analysis" -> <<6, 5>>
              [] OTHER -> <<>>
  /\ \A i \in 1..Len(handed) :
       handed[i].call = 1 =>
         /\ TableCols(handed[i].story) = <<2, 4, 3, 5, 4, 6, 5>>
         /\ \A k \in 1..7 : Rectangular(Tables(handed[i].story)[k])

C16_Witness ==
  /\ Len(handed) >= 1
  /\ handed[1].call = 1
  /\ TableCols(handed[1].story) = <<2, 4, 3, 5, 4, 6, 5>>
  /\ \E r \in ran : r.builder = "add_roi_analysis"

\* the positions of the page breaks in a sequence of blocks
PageBreaks(s) == {i \in 1..Len(s) : s[i].kind = "PageBreak"}

IsParagraphIn(b, style) == b.kind = "Paragraph" /\ b.style = style

\* C17: each completed run of a builder other than add_conclusions has
\* appended exactly one page break, as its last block; a run of
\* add_conclusions has appended none and has ended with a paragraph; each
\* run of a builder other than add_cover_page has begun with a paragraph in
\* the 'Section' style. The story the first generate() on a fresh instance
\* has assembled and handed over has exactly six page breaks, at blocks 8,
\* 38, 60, 86, 136 and 155, each directly followed by a 'Section' paragraph,
\* begins with the 'CustomTitle' paragraph and ends with a paragraph.
C17_PageBreaksAndHeadings ==
  /\ \A r \in ran :
       /\ Len(r.blocks) > 0
       /\ (r.builder # "add_conclusions" =>
             PageBreaks(r.blocks) = {Len(r.blocks)})
       /\ (r.builder = "add_conclusions" =>
             /\ PageBreaks(r.blocks) = {}
             /\ r.blocks[Len(r.blocks)].kind = "Paragraph")
       /\ (r.builder # "add_cover_page" =>
             IsParagraphIn(r.blocks[1], "Section"))
       /\ (r.builder = "add_cover_page" =>
             IsParagraphIn(r.blocks[1], "CustomTitle"))
  /\ \A i \in 1..Len(handed) :
       handed[i].call = 1 =>
         LET s == handed[i].story IN
           /\ PageBreaks(s) = {8, 38, 60, 86, 136, 155}
           /\ Cardinality(PageBreaks(s)) = 6
           /\ \A p \in PageBreaks(s) : IsParagraphIn(s[p + 1], "Section")
           /\ IsParagraphIn(s[1], "CustomTitle")
           /\ s[Len(s)].kind = "Paragraph"

C17_Witness ==
  /\ Len(handed) >= 1
  /\ handed[1].call = 1
  /\ Cardinality(PageBreaks(handed[1].story)) = 6
  /\ \E r \in ran : r.builder = "add_conclusions" /\ PageBreaks(r.blocks) = {}

\* the parent each custom style is registered with
ParentOf ==
  [n \in CustomNames |->
     CASE n = "CustomTitle" -> "Heading1"
       [] n = "CustomSubtitle" -> "Heading2"
       [] n = "Section" -> "Heading2"
       [] n = "Subsection" -> "Heading3"
       [] n = "CustomCode" -> "Normal"
       [] n = "Highlight" -> "BodyText"
       [] n = "Metric" -> "BodyText"]

\* C18: the registration of the custom styles in __init__ has not raised,
\* neither for a name that is taken nor for a parent that is missing: the
\* sample style sheet holds Title and Code and none of the seven custom
\* names, the seven are registered as seven further entries, and each has
\* for parent the style, of the sample sheet, it is documented to inherit
\* from (Heading1, Heading2, Heading2, Heading3, Normal, BodyText,
\* BodyText).
C18_RegistrationNeverFails ==
  /\ styles.error = ""
  /\ pc # "no instance"
  /\ {"Title", "Code"} \subseteq SampleNames
  /\ CustomNames \cap SampleNames = {}
  /\ DOMAIN styles.byName \ SampleNames = CustomNames
  /\ Cardinality(DOMAIN styles.byName \ SampleNames) = 7
  /\ \A n \in CustomNames :
       /\ styles.byName[n].parent = ParentOf[n]
       /\ styles.byName[n].parent \in SampleNames
  /\ \A n \in SampleNames : styles.byName[n] = getSampleStyleSheet.byName[n]

C18_Witness ==
  /\ pc = "idle"
  /\ calls = 0
  /\ styles.error = ""
  /\ styles.byName["CustomCode"].parent = "Normal"
  /\ styles.byName["CustomTitle"].parent = "Heading1"

\* the texts of the paragraphs of a sequence of blocks that carry a style
TextsIn(blocks, style) ==
  LET ps == SelectSeq(blocks, LAMBDA b : IsParagraphIn(b, style))
  IN [i \in 1..Len(ps) |-> ps[i].text]

\* C19: 'CustomCode' is registered, and no block a builder has appended, nor
\* any block of a story about to be handed to the layout engine, carries it;
\* the built-in 'Code' style is carried by exactly the three snippets code1,
\* code2 and code3 of add_optimization_strategies, in that order, and by no
\* block of another builder; once the seven builders have run, the custom
\* styles they have looked up are the other six, CustomTitle,
\* CustomSubtitle, Section, Subsection, Highlight and Metric.
C19_CustomCodeUnused ==
  /\ "CustomCode" \in DOMAIN styles.byName
  /\ \A r \in ran :
       /\ "CustomCode" \notin StylesOf(r.blocks)
       /\ TextsIn(r.blocks, "Code") =
            IF r.builder = "add_optimization_strategies"
              THEN <<Paragraph(code1, "Code").text, Paragraph(code2, "Code").text,
                     Paragraph(code3, "Code").text>>
              ELSE <<>>
  /\ (pc = "build" =>
        /\ \A i \in 1..Len(story) : story[i].style # "CustomCode"
        /\ UNION {StylesOf(r.blocks) : r \in ran} \cap CustomNames =
             {"CustomTitle", "CustomSubtitle", "Section", "Subsection",
              "Highlight", "Metric"})

C19_Witness ==
  /\ pc = "build"
  /\ \E r \in ran :
       /\ r.builder = "add_optimization_strategies"
       /\ Len(TextsIn(r.blocks, "Code")) = 3
  /\ "CustomCode" \in DOMAIN styles.byName

=============================================================================
